---- MODULE Spec2Model ----
(***************************************************************************)
(* The example programs of mastering-k8s-client-go as one state machine.   *)
(* A behaviour runs ONE program (prog), chosen in Init.  The main          *)
(* goroutine walks MainFlow(prog), one step per statement that calls the   *)
(* client library or prints; the informer goroutines the library starts    *)
(* (initial list, watch events, listener goroutines that run the           *)
(* registered handlers) are the background actions.                        *)
(*                                                                         *)
(* The client library is not part of the repository.  Its behaviour is     *)
(* modelled at the call sites: InformerFor is the factory's get-or-create, *)
(* Start starts each registered informer once, WaitForCacheSync returns    *)
(* when every started informer has synced or the stop channel is closed,   *)
(* a receive on a channel proceeds only when the channel is closed, the    *)
(* typed clients return a non-nil (empty) list together with an error,     *)
(* and NewForConfig / a method of a nil clientset dereference nil.         *)
(***************************************************************************)
EXTENDS Integers, Sequences, FiniteSets, TLC

\* ------------------------------------------------------------------ bounds
MaxObjs   == 1   \* object ids per resource type
MaxEvents == 1   \* watch events after the initial list
MaxPolls  == 2   \* iterations of podStatus's endless loop that are explored

\* ------------------------------------------------------------- vocabulary
Progs ==
  { "noinformer",  \* 03_without_nformer/main.go
    "factory",     \* 07_shared_informer_factory/main.go
    "listerA",     \* 08_shared_informer_factory_lister/main.go:1-138
    "listerB",     \* 08_shared_informer_factory_lister/main.go:140-298
    "sharedinf",   \* 08_shared_informer_factory_lister/main.go:300-411
    "index",       \* 05_informer_index/main.go:1-131
    "deploy",      \* 05_informer_index/main.go:133-237
    "customidx",   \* 05_informer_index/main.go:239-378
    "options",     \* 11_shared_informer_factory_with_options/main.go:1-101
    "idxlister",   \* 11_shared_informer_factory_with_options/main.go:103-231
    "listpods" }   \* unnamed/part_001

Types  == {"Pods", "Deployments"}
Ids    == 1..MaxObjs
Nodes  == {"n1", "n2"}
Absent == "absent"
\* The value of an object: a pod's Spec.NodeName, a deployment's spec.
Vals(t) == IF t = "Pods" THEN Nodes ELSE {"spec"}

NoFlag  == <<"no-flag">>
\* A path is its sequence of elements; a leading "/" element makes it absolute.
HomePath   == <<"/", "home", "user">>
CustomPath == <<"/", "etc", "kube", "admin.conf">>
\* The node name the index program looks up is one of the cluster's nodes.
KitedNode  == "n1"
Unset      == <<"unset">>

\* ------------------------------------------------------------------ paths
RECURSIVE Flatten(_)
Flatten(elems) ==
  IF elems = <<>> THEN <<>> ELSE Head(elems) \o Flatten(Tail(elems))

RECURSIVE DropInnerSlash(_, _)
DropInnerSlash(p, first) ==
  IF p = <<>> THEN <<>>
  ELSE IF Head(p) = "/" /\ ~first THEN DropInnerSlash(Tail(p), FALSE)
       ELSE <<Head(p)>> \o DropInnerSlash(Tail(p), FALSE)

\* filepath.Join: empty elements are ignored, the rest are joined with a
\* separator and cleaned (repeated separators collapse).
Join(elems) == DropInnerSlash(Flatten(elems), TRUE)

\* --------------------------------------------------------------- handlers
\* The text each registered handler prints for an event kind; "" where the
\* handler has no function for that kind (a nil func of
\* ResourceEventHandlerFuncs, or an empty method body).
HandlerNames == {"Monitor", "Manager", "Scaler", "First", "Second", "PodMonitor"}

\* (HandlerText_SecondAll: the second handler of the shared-informer program
\* with functions for every kind of event.)
HandlerText_SecondAll(h, kind) ==
  CASE h = "Monitor"    -> IF kind = "add" THEN "[Monitor] Pod added" ELSE ""
    [] h = "Manager"    -> IF kind = "add" THEN "[Manager] Deployment added" ELSE ""
    [] h = "Scaler"     -> IF kind = "update" THEN "[Scaler] Pod updated"
                           ELSE IF kind = "delete" THEN "[Scaler] Pod deleted"
                           ELSE ""
    [] h = "First"      -> IF kind = "add" THEN "(+) Pod added"
                           ELSE IF kind = "update" THEN "(*) Pod updated"
                           ELSE "(-) Pod deleted"
    [] h = "Second"     -> "[SECOND-CONTROLLER] Also saw pod"
    [] h = "PodMonitor" -> IF kind = "add" THEN "Pod added" ELSE ""

HandlerText(h, kind) ==
  CASE h = "Monitor"    -> IF kind = "add" THEN "[Monitor] Pod added" ELSE ""
    [] h = "Manager"    -> IF kind = "add" THEN "[Manager] Deployment added" ELSE ""
    [] h = "Scaler"     -> IF kind = "update" THEN "[Scaler] Pod updated"
                           ELSE IF kind = "delete" THEN "[Scaler] Pod deleted"
                           ELSE ""
    [] h = "First"      -> IF kind = "add" THEN "(+) Pod added"
                           ELSE IF kind = "update" THEN "(*) Pod updated"
                           ELSE "(-) Pod deleted"
    [] h = "Second"     -> IF kind = "add" THEN "[SECOND-CONTROLLER] Also saw pod" ELSE ""
    [] h = "PodMonitor" -> IF kind = "add" THEN "Pod added" ELSE ""

\* ------------------------------------------------------------------ steps
S(op, fn, arg) == [op |-> op, fn |-> fn, arg |-> arg]

\* A library call made by a set-up function on its local informer variable.
InformerFor(t)            == [call |-> "InformerFor", t |-> t, h |-> "", x |-> {}]
NewSharedIndexInformer(x) == [call |-> "NewSharedIndexInformer", t |-> "Pods", h |-> "", x |-> x]
AddEventHandler(h)        == [call |-> "AddEventHandler", t |-> "", h |-> h, x |-> {}]
AddIndexers(x)            == [call |-> "AddIndexers", t |-> "", h |-> "", x |-> x]

\* A query: an API request (src "api") or a cache lookup (src "cache").
\*   cond    when the statement is reached at all (an enclosing if)
\*   canFail whether the call returns an error value
\*   onErr   what the code does with the error
\*   text    the line printed with the result, each the line printed per
\*           object of the result, orElse the line of the else branch
\*   sets    the local variable a later condition reads
\*   loop    the query is the body of an endless for loop
Q(req, src, t, cond, canFail, onErr, text, each, sets) ==
  [req |-> req, src |-> src, t |-> t, cond |-> cond, canFail |-> canFail,
   onErr |-> onErr, text |-> text, each |-> each, sets |-> sets,
   orElse |-> "", loop |-> FALSE, cls |-> "state"]

createClientset ==
  << S("UserHomeDir", "createClientset", "fatal"),
     S("FlagParse", "createClientset", ""),
     S("BuildConfigFromFlags", "createClientset", [onErr |-> "fatal", path |-> "var"]),
     S("NewForConfig", "createClientset", "fatal") >>

getExternalClusterConfig ==
  << S("HomeDir", "getExternalClusterConfig", ""),
     S("BuildConfigFromFlags", "getExternalClusterConfig", [onErr |-> "panic", path |-> "var"]) >>

NamespacesList == << S("NamespacesList", "main", ""),
                     S("Println", "main", "Successfully connected to cluster") >>

startPodMonitor        == << InformerFor("Pods"), AddEventHandler("Monitor") >>
\* (startDeploymentManager_Pods: the manager's handler put on the pod informer.)
startDeploymentManager_Pods == << InformerFor("Pods"), AddEventHandler("Manager") >>
startDeploymentManager == << InformerFor("Deployments"), AddEventHandler("Manager") >>
\* (startPodScaler_Own: startPodScaler building an informer of its own.)
startPodScaler_Own     == << NewSharedIndexInformer({}), AddEventHandler("Scaler") >>
startPodScaler         == << InformerFor("Pods"), AddEventHandler("Scaler") >>
setupInformers         == << InformerFor("Pods"), InformerFor("Deployments") >>
setupInformersWithCustomIndex == << InformerFor("Pods"), AddIndexers({"node", "phase"}) >>
setupCustomIndexers    == << InformerFor("Pods"), AddIndexers({"node"}) >>
setupPodMonitor        == << InformerFor("Pods"), AddEventHandler("PodMonitor") >>
createPodInformerPlain == << NewSharedIndexInformer({}) >>
createPodInformerIndexed == << NewSharedIndexInformer({"namespace", "node"}) >>

podStatus ==
  << S("Query", "podStatus",
       [Q("Pods(default).List", "api", "Pods", "always", TRUE, "ignore", "---",
          "pod: phase", "") EXCEPT !.loop = TRUE, !.cls = "status"]) >>

useListers ==
  << S("Setup", "useListers", << InformerFor("Pods"), InformerFor("Deployments") >>),
     S("Query", "useListers",
       Q("podLister.List(everything)", "cache", "Pods", "always", TRUE, "return",
         "Total pods (all namespaces)", "", "allPods")),
     S("Println", "useListers", "Pods per namespace:"),
     S("Query", "useListers",
       Q("podLister.Pods(default).List(everything)", "cache", "Pods", "always", TRUE,
         "return", "Pods in default namespace", "", "")),
     S("Query", "useListers",
       Q("podLister.Pods(ns).Get(name)", "cache", "Pods", "hasPods", TRUE,
         "notfound", "Found pod", "", "")),
     S("Query", "useListers",
       Q("podLister.List(app=nginx)", "cache", "Pods", "always", TRUE, "return",
         "Nginx pods", "", "nginxPods")),
     S("Query", "useListers",
       Q("deploymentLister.List(everything)", "cache", "Deployments", "always", TRUE,
         "return", "Total deployments (all namespaces)", "", "")) >>

demonstrateListers ==
  << S("Setup", "demonstrateListers", << InformerFor("Pods"), InformerFor("Deployments") >>),
     S("Query", "demonstrateListers",
       Q("podLister.List(everything)", "cache", "Pods", "always", TRUE, "return",
         "Total pods (all namespaces)", "", "allPods")),
     S("Println", "demonstrateListers", "Pods per namespace:"),
     S("Query", "demonstrateListers",
       Q("podLister.Pods(default).List(everything)", "cache", "Pods", "always", TRUE,
         "return", "Pods in default namespace", "", "")),
     S("Query", "demonstrateListers",
       Q("podLister.Pods(ns).Get(name)", "cache", "Pods", "hasPods", TRUE,
         "notfound", "Found pod", "", "")),
     S("Query", "demonstrateListers",
       Q("podLister.List(app=nginx)", "cache", "Pods", "always", TRUE, "return",
         "Nginx pods", "", "nginxPods")),
     S("Query", "demonstrateListers",
       Q("podLister.List(k8s-app)", "cache", "Pods", "noNginx", TRUE, "skip",
         "Pods with k8s-app label", "", "")),
     S("Query", "demonstrateListers",
       Q("deploymentLister.List(everything)", "cache", "Deployments", "always", TRUE,
         "return", "Total deployments (all namespaces)", "deployment (replicas)", "")) >>

queryWithCustomIndexers ==
  << S("Setup", "queryWithCustomIndexers", << InformerFor("Pods") >>),
     S("Query", "queryWithCustomIndexers",
       Q("indexer.ListIndexFuncValues(node)", "cache", "Pods", "always", FALSE, "",
         "Available nodes", "", "allNodes")),
     S("Query", "queryWithCustomIndexers",
       [Q("indexer.ByIndex(node,allNodes[0])", "cache", "Pods", "hasNodes", TRUE,
          "return", "Pods on node", "- pod (namespace)", "")
        EXCEPT !.orElse = "No nodes found"]),
     S("Query", "queryWithCustomIndexers",
       Q("indexer.ByIndex(phase,Running)", "cache", "Pods", "always", TRUE, "return",
         "Running pods", "", "")) >>

queryBylisters ==
  << S("Setup", "queryBylisters", << InformerFor("Pods") >>),
     S("Query", "queryBylisters",
       Q("podLister.Pods(default).List(everything)", "cache", "Pods", "always", TRUE,
         "ignore", "Default namespace pods", "", "")),
     S("Query", "queryBylisters",
       Q("podLister.List(app=nginx)", "cache", "Pods", "always", TRUE, "ignore",
         "Nginx pods", "", "")) >>

queryByCustomIndexes ==
  << S("Setup", "queryByCustomIndexes", << InformerFor("Pods") >>),
     S("Query", "queryByCustomIndexes",
       Q("indexer.ListIndexFuncValues(node)", "cache", "Pods", "always", FALSE, "",
         "Nodes", "", "allNodes")),
     S("Query", "queryByCustomIndexes",
       Q("indexer.ByIndex(node,allNodes[0])", "cache", "Pods", "hasNodes", TRUE,
         "ignore", "Pods on", "", "")) >>

indexQueries ==
  << S("Query", "main",
       Q("podStore.List()", "cache", "Pods", "always", FALSE, "", "Found pods",
         "Pod/Node", "")),
     S("Println", "main", "=== With Namespace Index ==="),
     S("Query", "main",
       Q("indexer.ByIndex(namespace,default)", "cache", "Pods", "always", TRUE, "print",
         "Pods in default namespace", "", "")),
     S("Println", "main", "Pod details from namespace index:"),
     S("Println", "main", "=== With Node Index ==="),
     S("Query", "main",
       Q("indexer.ByIndex(node,kited)", "cache", "Pods", "always", TRUE, "print",
         "Pods on node", "Name, Namespace", "")) >>

createDeployment ==
  << S("Query", "main",
       [Q("Deployments(default).Create(nginx-deployment)", "api", "Deployments",
          "always", TRUE, "panic", "Successfully created deployment", "", "")
        EXCEPT !.cls = "status"]) >>

listPods ==
  << S("Query", "main",
       Q("Pods(default).List", "api", "Pods", "always", TRUE, "ignore", "",
         "Pod Name", "")) >>

\* ------------------------------------------------------------ main flows
\* The statements of each program's main, in order, with the functions it
\* calls inlined.  "Return" is the end of main (deferred calls run there).
Main_noinformer ==
  << S("UserHomeDir", "main", "ignore"),
     S("BuildConfigFromFlags", "main", [onErr |-> "ignore", path |-> "inline"]),
     S("NewForConfig", "main", "ignore") >>
  \o podStatus \o << S("Return", "main", "") >>

Main_factory ==
  createClientset \o
  << S("NewSharedInformerFactory", "main", ""),
     S("Setup", "startPodMonitor", startPodMonitor),
     S("Setup", "startDeploymentManager", startDeploymentManager),
     S("Setup", "startPodScaler", startPodScaler),
     S("MakeStopCh", "main", FALSE),
     S("FactoryStart", "main", ""),
     S("FactoryWaitForCacheSync", "main", ""),
     S("ReceiveStopCh", "main", ""),
     S("Return", "main", "") >>

ListerPrologue ==
  createClientset \o NamespacesList \o
  << S("NewSharedInformerFactory", "main", ""),
     S("Setup", "setupInformers", setupInformers),
     S("MakeStopCh", "main", FALSE),
     S("FactoryStart", "main", ""),
     S("Println", "main", "Waiting for cache sync..."),
     S("FactoryWaitForCacheSync", "main", ""),
     S("Println", "main", "Cache sync completed!") >>

\* (Main_listerA_QueryFirst: the lister program querying before factory.Start.)
Main_listerA_QueryFirst ==
  createClientset \o NamespacesList \o
  << S("NewSharedInformerFactory", "main", ""),
     S("Setup", "setupInformers", setupInformers),
     S("MakeStopCh", "main", FALSE) >>
  \o useListers \o
  << S("FactoryStart", "main", ""),
     S("Println", "main", "Waiting for cache sync..."),
     S("FactoryWaitForCacheSync", "main", ""),
     S("Println", "main", "Cache sync completed!"),
     S("CloseStopCh", "main", ""),
     S("Return", "main", "") >>

Main_listerA ==
  ListerPrologue \o useListers \o
  << S("CloseStopCh", "main", ""),
     S("Return", "main", "") >>

Main_listerB ==
  ListerPrologue \o demonstrateListers \o
  << S("Println", "main", "Lister demonstration completed!"),
     S("CloseStopCh", "main", ""),
     S("Return", "main", "") >>

Main_sharedinf ==
  createClientset \o
  << S("Setup", "createPodInformer", createPodInformerPlain),
     S("MakeStopCh", "main", TRUE),
     S("GoRun", "main", ""),
     S("Println", "main", "Waiting for caches to sync..."),
     S("CacheWaitForCacheSync", "main", ""),
     S("Setup", "main", << AddEventHandler("First") >>),
     S("Setup", "main", << AddEventHandler("Second") >>),
     S("ReceiveStopCh", "main", ""),
     S("Return", "main", "") >>

Main_index ==
  createClientset \o
  << S("Setup", "createPodInformer", createPodInformerIndexed),
     S("MakeStopCh", "main", TRUE),
     S("GoRun", "main", ""),
     S("Println", "main", "Waiting for caches to sync..."),
     S("CacheWaitForCacheSync", "main", "") >>
  \o indexQueries \o << S("Return", "main", "") >>

Main_deploy ==
  getExternalClusterConfig \o
  << S("NewForConfig", "main", "panic"),
     S("Println", "main", "Connected to external cluster") >>
  \o createDeployment \o << S("Return", "main", "") >>

Main_customidx ==
  createClientset \o NamespacesList \o
  << S("NewSharedInformerFactory", "main", ""),
     S("Setup", "setupInformersWithCustomIndex", setupInformersWithCustomIndex),
     S("MakeStopCh", "main", FALSE),
     S("FactoryStart", "main", ""),
     S("Println", "main", "Waiting for cache sync..."),
     S("FactoryWaitForCacheSync", "main", ""),
     S("Println", "main", "Cache sync completed!") >>
  \o queryWithCustomIndexers \o
  << S("CloseStopCh", "main", ""),
     S("Return", "main", "") >>

Main_options ==
  createClientset \o NamespacesList \o
  << S("NewSharedInformerFactory", "main", ""),
     S("NewSharedInformerFactory", "main", "WithNamespace(default)"),
     S("NewSharedInformerFactory", "main", "WithTweakListOptions(app=nginx)"),
     S("NewSharedInformerFactory", "main", "WithTweakListOptions(status.phase=Running)"),
     S("NewSharedInformerFactory", "main", "WithNamespace(kube-system)+WithTweakListOptions"),
     S("NewSharedInformerFactory", "main", "WithCustomResyncConfig"),
     S("Return", "main", "") >>

Main_idxlister ==
  createClientset \o
  << S("NewSharedInformerFactory", "main", ""),
     S("Setup", "setupCustomIndexers", setupCustomIndexers),
     S("Setup", "setupPodMonitor", setupPodMonitor),
     S("MakeStopCh", "main", FALSE),
     S("FactoryStart", "main", ""),
     S("FactoryWaitForCacheSync", "main", "") >>
  \o queryBylisters \o queryByCustomIndexes \o
  << S("ReceiveStopCh", "main", ""),
     S("Return", "main", "") >>

Main_listpods ==
  getExternalClusterConfig \o
  << S("NewForConfig", "main", "panic"),
     S("Println", "main", "Connected to external cluster") >>
  \o listPods \o << S("Return", "main", "") >>

MainFlow(p) ==
  CASE p = "noinformer" -> Main_noinformer
    [] p = "factory"    -> Main_factory
    [] p = "listerA"    -> Main_listerA
    [] p = "listerB"    -> Main_listerB
    [] p = "sharedinf"  -> Main_sharedinf
    [] p = "index"      -> Main_index
    [] p = "deploy"     -> Main_deploy
    [] p = "customidx"  -> Main_customidx
    [] p = "options"    -> Main_options
    [] p = "idxlister"  -> Main_idxlister
    [] p = "listpods"   -> Main_listpods

\* ------------------------------------------------------------------ state
VARIABLES
  prog,             \* the program this behaviour runs
  flagArg,          \* the -kubeconfig argument on the command line, or NoFlag
  cluster,          \* the API server's objects: [type -> [id -> value or Absent]]
  pc,               \* main's position in MainFlow(prog)
  status,           \* "running", "fatal" (log.Fatalf), "panic", "exited"
  parked,           \* main is blocked in <-stopCh
  home,             \* the home directory as resolved; <<>> when that failed
  kubeconfig,       \* the kubeconfig string variable
  cfgPath,          \* the path handed to BuildConfigFromFlags
  config,           \* "unset", "ok" or "nil"
  clientset,        \* "unset", "ok" or "nil"
  failedSetup,      \* the set-up step that failed, or "none"
  out,              \* the lines main has printed to standard output
  handlerOut,       \* per handler: the lines it has printed to standard output
  requests,         \* the API requests and cache queries main has issued
  polls,            \* iterations of podStatus's loop
  factories,        \* informer factories constructed
  informers,        \* the informers constructed, in order
  informerOf,       \* the factory's map: type -> index in informers, 0 if none
  startedInformers, \* the factory's record of the types it has started
  podInformer,      \* the informer variable of the function being executed
  pending,          \* per listener: notifications not yet handled
  stopCh,           \* "nil", "open" or "closed"
  deferred,         \* close(stopCh) is deferred to main's return
  closes,           \* how many times close(stopCh) has executed
  locals,           \* results of earlier queries that later conditions read
  events            \* the watch events after the initial list, each with the
                    \* listeners it was sent to and main's position at the time

vars == << prog, flagArg, cluster, pc, status, parked, home, kubeconfig, cfgPath,
           config, clientset, failedSetup, out, handlerOut, requests, polls,
           factories, informers, informerOf, startedInformers, podInformer, pending, stopCh,
           deferred, closes, locals, events >>

envVars   == << prog, flagArg >>
setupVars == << home, kubeconfig, cfgPath, config, clientset, failedSetup >>
infVars   == << factories, informers, informerOf, startedInformers, podInformer,
                pending, handlerOut >>
chanVars  == << stopCh, deferred, closes, parked >>

Line(by, text, cls, obj, ev) ==
  [by |-> by, text |-> text, cls |-> cls, obj |-> obj, ev |-> ev]

\* The index values of a pod for the "node" index: []string{pod.Spec.NodeName}.
\* (podNodeIndexFunc_Fixed: every pod indexed under one fixed node name.)
podNodeIndexFunc_Fixed(v) == {KitedNode}
podNodeIndexFunc(v) == {v}

\* The "node" index of a cache after the object with key id changed from old
\* to new (Absent: not in the cache): the key leaves the sets of the old
\* object's index values and joins those of the new object's.
updateIndices(index, id, old, new) ==
  LET oldVals == IF old = Absent THEN {} ELSE podNodeIndexFunc(old)
      newVals == IF new = Absent THEN {} ELSE podNodeIndexFunc(new)
  IN [n \in Nodes |->
        IF n \in newVals THEN index[n] \cup {id}
        ELSE IF n \in oldVals THEN index[n] \ {id}
        ELSE index[n]]

\* An informer's cache changing the object with key id to new, its "node"
\* index, when it has one, following.
StoreSet(inf, id, new) ==
  [inf EXCEPT !.store[id] = new,
              !.nodeIndex = IF "node" \in inf.indexers
                            THEN updateIndices(@, id, inf.store[id], new)
                            ELSE @]

\* The cache replaced by a list from the API server, object by object.
RECURSIVE StoreReplace(_, _, _)
StoreReplace(inf, list, i) ==
  IF i > MaxObjs THEN inf
  ELSE StoreReplace(StoreSet(inf, i, list[i]), list, i + 1)

NewInformer(t, x) ==
  [type |-> t, runs |-> 0, synced |-> FALSE, listeners |-> <<>>,
   indexers |-> x, store |-> [i \in Ids |-> Absent],
   nodeIndex |-> [n \in Nodes |-> {}]]

Init ==
  /\ prog \in Progs
  /\ flagArg \in {NoFlag, CustomPath}
  /\ \E cp \in [Ids -> Nodes \cup {Absent}], cd \in [Ids -> {"spec", Absent}] :
       cluster = [t \in Types |-> IF t = "Pods" THEN cp ELSE cd]
  /\ pc = 1
  /\ status = "running"
  /\ parked = FALSE
  /\ home = <<>>
  /\ kubeconfig = <<>>
  /\ cfgPath = Unset
  /\ config = "unset"
  /\ clientset = "unset"
  /\ failedSetup = "none"
  /\ out = <<>>
  /\ handlerOut = [h \in HandlerNames |-> <<>>]
  /\ requests = <<>>
  /\ polls = 0
  /\ factories = 0
  /\ informers = <<>>
  /\ informerOf = [t \in Types |-> 0]
  /\ startedInformers = {}
  /\ podInformer = 0
  /\ pending = [h \in HandlerNames |-> <<>>]
  /\ stopCh = "nil"
  /\ deferred = FALSE
  /\ closes = 0
  /\ locals = [hasPods |-> FALSE, nginxEmpty |-> TRUE, hasNodes |-> FALSE,
               node |-> KitedNode]
  /\ events = <<>>

Running == status = "running"
Cur     == MainFlow(prog)[pc]
At(op)  == Running /\ ~parked /\ pc <= Len(MainFlow(prog)) /\ Cur.op = op

\* What a failed set-up step does to the process: log.Fatalf / klog.Fatalf
\* exit, panic unwinds, a discarded error lets main go on.
\* (AfterSetupError_Ignore: every set-up error discarded.)
AfterSetupError_Ignore(onErr) == "running"
AfterSetupError(onErr) == IF onErr = "ignore" THEN "running" ELSE onErr

\* ------------------------------------------------------------ set-up steps
\* os.UserHomeDir() and the check (if any) of its error.
UserHomeDir ==
  /\ At("UserHomeDir")
  /\ \E ok \in BOOLEAN :
       IF ok
       THEN /\ home' = HomePath
            /\ pc' = pc + 1
            /\ UNCHANGED << status, failedSetup >>
       ELSE /\ home' = <<>>
            /\ failedSetup' = "home"
            /\ status' = AfterSetupError(Cur.arg)
            /\ pc' = IF status' = "running" THEN pc + 1 ELSE pc
  /\ UNCHANGED << envVars, cluster, kubeconfig, cfgPath, config, clientset, out,
                  requests, polls, infVars, chanVars, locals, events >>

\* homedir.HomeDir() returns "" when no home is found; kubeconfig is set only
\* under home != "".
HomeDir ==
  /\ At("HomeDir")
  /\ \E ok \in BOOLEAN :
       /\ home' = IF ok THEN HomePath ELSE <<>>
       /\ failedSetup' = IF ok THEN failedSetup ELSE "home"
       /\ kubeconfig' = IF home' # <<>>
                        THEN Join(<< home', <<".kube">>, <<"config">> >>)
                        ELSE <<>>
  /\ pc' = pc + 1
  /\ UNCHANGED << envVars, cluster, status, cfgPath, config, clientset, out,
                  requests, polls, infVars, chanVars, locals, events >>

\* (FlagParse_IgnoreFlag: the flag's value never read.)
FlagParse_IgnoreFlag ==
  /\ At("FlagParse")
  /\ kubeconfig' = Join(<< home, <<"/", ".kube", "config">> >>)
  /\ pc' = pc + 1
  /\ UNCHANGED << envVars, cluster, status, home, cfgPath, config, clientset,
                  failedSetup, out, requests, polls, infVars, chanVars, locals, events >>

\* flag.String("kubeconfig", filepath.Join(home, "/.kube/config"), ...); flag.Parse()
FlagParse ==
  /\ At("FlagParse")
  /\ kubeconfig' = IF flagArg # NoFlag THEN flagArg
                   ELSE Join(<< home, <<"/", ".kube", "config">> >>)
  /\ pc' = pc + 1
  /\ UNCHANGED << envVars, cluster, status, home, cfgPath, config, clientset,
                  failedSetup, out, requests, polls, infVars, chanVars, locals, events >>

\* clientcmd.BuildConfigFromFlags("", path) and the check of its error.
BuildConfigFromFlags ==
  /\ At("BuildConfigFromFlags")
  /\ cfgPath' = IF Cur.arg.path = "var" THEN kubeconfig
                ELSE Join(<< home, <<".kube", "config">> >>)
  /\ \E ok \in BOOLEAN :
       IF ok
       THEN /\ config' = "ok"
            /\ pc' = pc + 1
            /\ UNCHANGED << status, failedSetup >>
       ELSE /\ config' = "nil"
            /\ failedSetup' = "config"
            /\ status' = AfterSetupError(Cur.arg.onErr)
            /\ pc' = IF status' = "running" THEN pc + 1 ELSE pc
  /\ UNCHANGED << envVars, cluster, home, kubeconfig, clientset, out, requests,
                  polls, infVars, chanVars, locals, events >>

\* kubernetes.NewForConfig(config) and the check of its error.  The library
\* copies *config first: a nil config is a nil dereference.
NewForConfig ==
  /\ At("NewForConfig")
  /\ IF config = "nil"
     THEN /\ status' = "panic"
          /\ UNCHANGED << clientset, failedSetup, pc >>
     ELSE \E ok \in BOOLEAN :
            IF ok
            THEN /\ clientset' = "ok"
                 /\ pc' = pc + 1
                 /\ UNCHANGED << status, failedSetup >>
            ELSE /\ clientset' = "nil"
                 /\ failedSetup' = "clientset"
                 /\ status' = AfterSetupError(Cur.arg)
                 /\ pc' = IF status' = "running" THEN pc + 1 ELSE pc
  /\ UNCHANGED << envVars, cluster, home, kubeconfig, cfgPath, config, out,
                  requests, polls, infVars, chanVars, locals, events >>

\* clientset.CoreV1().Namespaces().List(...): the connectivity check.
ConnectivityCheck ==
  /\ At("NamespacesList")
  /\ \E ok \in BOOLEAN :
       /\ requests' = Append(requests,
                        [req |-> "Namespaces().List", ok |-> ok, setup |-> TRUE])
       /\ IF ok
          THEN /\ pc' = pc + 1
               /\ UNCHANGED << status, failedSetup >>
          ELSE /\ failedSetup' = "connect"
               /\ status' = AfterSetupError("fatal")
               /\ pc' = IF status' = "running" THEN pc + 1 ELSE pc
  /\ UNCHANGED << envVars, cluster, home, kubeconfig, cfgPath, config, clientset,
                  out, polls, infVars, chanVars, locals, events >>

\* fmt.Println of a fixed status line.
Println ==
  /\ At("Println")
  /\ out' = Append(out, Line("main", Cur.arg, "status", 0, 0))
  /\ pc' = pc + 1
  /\ UNCHANGED << envVars, cluster, status, setupVars, requests, polls, infVars,
                  chanVars, locals, events >>

\* ---------------------------------------------------- informers and factory
\* One Add notification per object of a store, as delivered for the initial
\* list or replayed to a handler added to a running informer.
RECURSIVE AddNotes(_, _)
AddNotes(store, i) ==
  IF i > MaxObjs THEN <<>>
  ELSE (IF store[i] = Absent THEN <<>>
        ELSE << [kind |-> "add", obj |-> i, val |-> store[i], ev |-> 0] >>)
       \o AddNotes(store, i + 1)

\* The library calls of a set-up function, applied in order to
\* st = [infs, of, cur, pend]: the informers, the factory's map, the
\* function's informer variable and the listeners' queues.
ApplyCall(c, st) ==
  CASE c.call = "InformerFor" ->
         \* factory.<Group>().<Version>().<Kind>().Informer()/.Lister():
         \* the factory's get-or-create by type
         IF st.of[c.t] # 0
         THEN [st EXCEPT !.cur = st.of[c.t]]
         ELSE [st EXCEPT !.infs = Append(st.infs, NewInformer(c.t, {})),
                         !.of   = [st.of EXCEPT ![c.t] = Len(st.infs) + 1],
                         !.cur  = Len(st.infs) + 1]
    [] c.call = "NewSharedIndexInformer" ->
         [st EXCEPT !.infs = Append(st.infs, NewInformer(c.t, c.x)),
                    !.cur  = Len(st.infs) + 1]
    [] c.call = "AddEventHandler" ->
         [st EXCEPT !.infs[st.cur].listeners = Append(@, c.h),
                    !.pend[c.h] = IF st.infs[st.cur].runs > 0
                                  THEN @ \o AddNotes(st.infs[st.cur].store, 1)
                                  ELSE @]
    [] c.call = "AddIndexers" ->
         \* refused with an error (discarded by the callers) once started
         IF st.infs[st.cur].runs > 0 THEN st
         ELSE [st EXCEPT !.infs[st.cur].indexers = @ \cup c.x]

RECURSIVE ApplyCalls(_, _)
ApplyCalls(calls, st) ==
  IF calls = <<>> THEN st
  ELSE ApplyCalls(Tail(calls), ApplyCall(Head(calls), st))

\* informers.NewSharedInformerFactory / NewSharedInformerFactoryWithOptions
NewSharedInformerFactory ==
  /\ At("NewSharedInformerFactory")
  /\ factories' = factories + 1
  /\ pc' = pc + 1
  /\ UNCHANGED << envVars, cluster, status, setupVars, out, requests, polls,
                  informers, informerOf, startedInformers, podInformer, pending,
                  handlerOut, chanVars, locals, events >>

\* A function (or statement of main) that obtains an informer and registers
\* handlers or indexers on it.
Setup ==
  /\ At("Setup")
  /\ LET st == ApplyCalls(Cur.arg, [infs |-> informers, of |-> informerOf,
                                    cur |-> podInformer, pend |-> pending])
     IN /\ informers' = st.infs
        /\ informerOf' = st.of
        /\ podInformer' = st.cur
        /\ pending' = st.pend
  /\ pc' = pc + 1
  /\ UNCHANGED << envVars, cluster, status, setupVars, out, requests, polls,
                  factories, startedInformers, handlerOut, chanVars, locals, events >>

\* stopCh := make(chan struct{}), with "defer close(stopCh)" where present.
MakeStopCh ==
  /\ At("MakeStopCh")
  /\ stopCh' = "open"
  /\ deferred' = Cur.arg
  /\ pc' = pc + 1
  /\ UNCHANGED << envVars, cluster, status, setupVars, out, requests, polls,
                  infVars, closes, parked, locals, events >>

\* factory.Start(stopCh): one goroutine for every registered informer the
\* factory has not started yet.
FactoryStart ==
  /\ At("FactoryStart")
  /\ LET new == {t \in Types : informerOf[t] # 0 /\ t \notin startedInformers}
     IN /\ informers' = [i \in 1..Len(informers) |->
                           IF \E t \in new : informerOf[t] = i
                           THEN [informers[i] EXCEPT !.runs = @ + 1]
                           ELSE informers[i]]
        /\ startedInformers' = startedInformers \cup new
  /\ pc' = pc + 1
  /\ UNCHANGED << envVars, cluster, status, setupVars, out, requests, polls,
                  factories, informerOf, podInformer, pending, handlerOut, chanVars,
                  locals, events >>

\* go podInformer.Run(stopCh)
GoRun ==
  /\ At("GoRun")
  /\ informers' = [informers EXCEPT ![podInformer].runs = @ + 1]
  /\ pc' = pc + 1
  /\ UNCHANGED << envVars, cluster, status, setupVars, out, requests, polls,
                  factories, informerOf, startedInformers, podInformer, pending,
                  handlerOut, chanVars, locals, events >>

\* WaitForCacheSync returns when every informer waited for has synced, or
\* when the stop channel is closed.
\* (WaitReturns_NoWait: a wait that returns at once.)
WaitReturns_NoWait(waited) == TRUE
WaitReturns(waited) ==
  \/ \A i \in waited : informers[i].synced
  \/ stopCh = "closed"

\* factory.WaitForCacheSync(stopCh); the result is discarded.
FactoryWaitForCacheSync ==
  /\ At("FactoryWaitForCacheSync")
  /\ WaitReturns({informerOf[t] : t \in startedInformers})
  /\ pc' = pc + 1
  /\ UNCHANGED << envVars, cluster, status, setupVars, out, requests, polls,
                  infVars, chanVars, locals, events >>

\* if !cache.WaitForCacheSync(stopCh, podInformer.HasSynced) { klog.Fatal(...) }
CacheWaitForCacheSync ==
  /\ At("CacheWaitForCacheSync")
  /\ WaitReturns({podInformer})
  /\ IF informers[podInformer].synced
     THEN /\ pc' = pc + 1
          /\ UNCHANGED << status, failedSetup >>
     ELSE /\ status' = "fatal"
          /\ failedSetup' = "sync"
          /\ UNCHANGED pc
  /\ UNCHANGED << envVars, cluster, home, kubeconfig, cfgPath, config, clientset,
                  out, requests, polls, infVars, chanVars, locals, events >>

\* close(stopCh); closing a closed or nil channel panics.
\* (CloseStopCh_NoClose: the statement passed without closing the channel.)
CloseStopCh_NoClose ==
  /\ At("CloseStopCh")
  /\ pc' = pc + 1
  /\ UNCHANGED << envVars, cluster, status, setupVars, out, requests, polls,
                  infVars, chanVars, locals, events >>

CloseStopCh ==
  /\ At("CloseStopCh")
  /\ IF stopCh = "open"
     THEN /\ stopCh' = "closed"
          /\ closes' = closes + 1
          /\ pc' = pc + 1
          /\ UNCHANGED status
     ELSE /\ status' = "panic"
          /\ UNCHANGED << stopCh, closes, pc >>
  /\ UNCHANGED << envVars, cluster, setupVars, out, requests, polls, infVars,
                  deferred, parked, locals, events >>

\* (ReceiveStopCh_NoBlock: a receive that does not wait for the close.)
ReceiveStopCh_NoBlock ==
  /\ At("ReceiveStopCh")
  /\ pc' = pc + 1
  /\ UNCHANGED << envVars, cluster, status, setupVars, out, requests, polls,
                  infVars, chanVars, locals, events >>

\* <-stopCh: the receive completes only on a closed channel; until then main
\* is blocked.
ReceiveStopCh ==
  /\ Running
  /\ pc <= Len(MainFlow(prog))
  /\ Cur.op = "ReceiveStopCh"
  /\ ~parked \/ stopCh = "closed"
  /\ IF stopCh = "closed"
     THEN /\ parked' = FALSE
          /\ pc' = pc + 1
     ELSE /\ parked' = TRUE
          /\ UNCHANGED pc
  /\ UNCHANGED << envVars, cluster, status, setupVars, out, requests, polls,
                  infVars, stopCh, deferred, closes, locals, events >>

\* The end of main: the deferred close(stopCh) runs, the process exits.
Return ==
  /\ At("Return")
  /\ IF deferred
     THEN IF stopCh = "open"
          THEN /\ stopCh' = "closed"
               /\ closes' = closes + 1
               /\ status' = "exited"
          ELSE /\ status' = "panic"
               /\ UNCHANGED << stopCh, closes >>
     ELSE /\ status' = "exited"
          /\ UNCHANGED << stopCh, closes >>
  /\ UNCHANGED << envVars, cluster, pc, setupVars, out, requests, polls, infVars,
                  deferred, parked, locals, events >>

\* ---------------------------------------------------------------- queries
\* The cache a lister, store or indexer of type t reads: the factory's
\* informer of that type, or the stand-alone informer of main.
StoreOf(t) ==
  IF informerOf[t] # 0 THEN informers[informerOf[t]].store
  ELSE informers[podInformer].store

InformerOf(t) == IF informerOf[t] # 0 THEN informerOf[t] ELSE podInformer

\* indexer.ByIndex("node", n): the cached pods whose keys the index holds
\* under n; indexer.ListIndexFuncValues("node"): the values that have keys.
ByIndex(i, n) ==
  [id \in Ids |-> IF id \in informers[i].nodeIndex[n]
                  THEN informers[i].store[id] ELSE Absent]
ListIndexFuncValues(i) == {n \in Nodes : informers[i].nodeIndex[n] # {}}

\* What a query reads.
Result(q) ==
  CASE q.src = "api" -> cluster[q.t]
    [] q.req = "indexer.ByIndex(node,kited)" -> ByIndex(InformerOf(q.t), KitedNode)
    [] q.req = "indexer.ByIndex(node,allNodes[0])" -> ByIndex(InformerOf(q.t), locals.node)
    [] OTHER -> StoreOf(q.t)

RECURSIVE EachLines(_, _, _)
EachLines(objs, text, i) ==
  IF i > MaxObjs \/ text = "" THEN <<>>
  ELSE (IF objs[i] = Absent THEN <<>>
        ELSE << Line("main", text, "state", i, 0) >>)
       \o EachLines(objs, text, i + 1)

Cond(c) ==
  CASE c = "always"   -> TRUE
    [] c = "hasPods"  -> locals.hasPods
    [] c = "noNginx"  -> locals.nginxEmpty
    [] c = "hasNodes" -> locals.hasNodes

TextLine(q) == IF q.text = "" THEN <<>> ELSE << Line("main", q.text, q.cls, 0, 0) >>

\* What a query statement prints.  On an error the typed clients and the
\* listers hand back an empty result next to the error.
QueryOutput(q, ok, objs) ==
  IF ok
  THEN IF q.loop THEN EachLines(objs, q.each, 1) \o TextLine(q)
       ELSE TextLine(q) \o EachLines(objs, q.each, 1)
  ELSE CASE q.onErr = "return"   -> << Line("main", "Error:", "error", 0, 0) >>
         [] q.onErr = "print"    -> << Line("main", "Error getting indexed values:", "error", 0, 0) >>
                                    \o TextLine(q)
         [] q.onErr = "notfound" -> << Line("main", "Pod not found:", "error", 0, 0) >>
         [] q.onErr = "ignore"   -> TextLine(q)
         [] q.onErr = "skip"     -> <<>>
         [] q.onErr = "panic"    -> <<>>

\* The process after a failed query: only panic(...) ends it.
\* (AfterQueryError_Panic: a discarded query error treated as fatal.)
AfterQueryError_Panic(onErr) == IF onErr \in {"panic", "ignore"} THEN "panic" ELSE "running"
AfterQueryError(onErr) == IF onErr = "panic" THEN "panic" ELSE "running"

\* (ReturnFrom_FallThrough: an error branch without its return.)
ReturnFrom_FallThrough(j) == j + 1

\* The first statement after the function that statement j belongs to.
ReturnFrom(j) ==
  CHOOSE k \in (j + 1)..Len(MainFlow(prog)) :
    /\ MainFlow(prog)[k].fn # MainFlow(prog)[j].fn
    /\ \A m \in (j + 1)..(k - 1) : MainFlow(prog)[m].fn = MainFlow(prog)[j].fn

\* (AfterQuery_Retry: the statement executed again after an error.)
AfterQuery_Retry(q, ok) ==
  IF q.loop \/ ~ok THEN pc ELSE pc + 1
\* Where main goes after a query statement.
AfterQuery(q, ok) ==
  IF q.loop THEN pc
  ELSE IF ok THEN pc + 1
  ELSE CASE q.onErr = "return" -> ReturnFrom(pc)
         [] q.onErr = "panic"  -> pc
         [] OTHER              -> pc + 1

\* One API request or cache lookup with the statements that depend on it.
Query ==
  /\ At("Query")
  /\ LET q    == Cur.arg
         objs == Result(q)
         some == \E i \in Ids : objs[i] # Absent
         vals == IF q.sets = "allNodes" THEN ListIndexFuncValues(InformerOf(q.t)) ELSE {}
     IN
     IF q.src = "api" /\ clientset = "nil"
     THEN \* a method call on the nil clientset
          /\ status' = "panic"
          /\ UNCHANGED << pc, out, requests, polls, locals >>
     ELSE IF ~Cond(q.cond)
     THEN /\ out' = IF q.orElse = "" THEN out
                    ELSE Append(out, Line("main", q.orElse, "status", 0, 0))
          /\ pc' = pc + 1
          /\ UNCHANGED << status, requests, polls, locals >>
     ELSE /\ q.loop => polls < MaxPolls
          /\ \E ok \in (IF q.canFail THEN BOOLEAN ELSE {TRUE}),
                ne \in (IF q.sets = "nginxPods" /\ some THEN BOOLEAN ELSE {TRUE}),
                first \in (IF vals # {} THEN vals ELSE {locals.node}) :
               /\ requests' = Append(requests,
                                [req |-> q.req, ok |-> ok, setup |-> FALSE])
               /\ out' = out \o QueryOutput(q, ok, objs)
               /\ status' = IF ok THEN status ELSE AfterQueryError(q.onErr)
               /\ pc' = AfterQuery(q, ok)
               /\ polls' = IF q.loop THEN polls + 1 ELSE polls
               /\ locals' =
                    IF ~ok THEN locals
                    ELSE CASE q.sets = "allPods"   -> [locals EXCEPT !.hasPods = some]
                           [] q.sets = "nginxPods" -> [locals EXCEPT !.nginxEmpty = ne]
                           [] q.sets = "allNodes"  ->
                                [locals EXCEPT !.hasNodes = vals # {}, !.node = first]
                           [] OTHER                -> locals
  /\ UNCHANGED << envVars, cluster, setupVars, infVars, chanVars, events >>

\* ------------------------------------------------- the library's goroutines
Live(i) == informers[i].runs > 0 /\ stopCh = "open"

\* The informer's initial list: the cache is filled from the API server, the
\* informer reports HasSynced, every listener is sent an Add per object.
InformerSync(i) ==
  /\ Running
  /\ Live(i)
  /\ ~informers[i].synced
  /\ informers' = [informers EXCEPT
                     ![i] = StoreReplace([@ EXCEPT !.synced = TRUE],
                                         cluster[informers[i].type], 1)]
  /\ pending' = [h \in HandlerNames |->
                   IF \E k \in 1..Len(informers[i].listeners) : informers[i].listeners[k] = h
                   THEN pending[h] \o AddNotes(cluster[informers[i].type], 1)
                   ELSE pending[h]]
  /\ UNCHANGED << envVars, cluster, pc, status, setupVars, out, requests, polls,
                  factories, informerOf, startedInformers, podInformer, handlerOut,
                  chanVars, locals, events >>

\* A change of an object on the API server, seen by the watch of every synced
\* informer of its type: the cache is updated and every listener notified.
WatchEvent(t, kind, id, v) ==
  /\ Running
  /\ Len(events) < MaxEvents
  /\ \E i \in 1..Len(informers) :
       informers[i].type = t /\ Live(i) /\ informers[i].synced
  /\ CASE kind = "add"    -> cluster[t][id] = Absent
       [] kind = "update" -> cluster[t][id] # Absent
       [] kind = "delete" -> cluster[t][id] # Absent /\ v = cluster[t][id]
  /\ LET new  == IF kind = "delete" THEN Absent ELSE v
         ev   == Len(events) + 1
         sees == {i \in 1..Len(informers) :
                    informers[i].type = t /\ Live(i) /\ informers[i].synced}
         note == [kind |-> kind, obj |-> id, val |-> v, ev |-> ev]
     IN /\ cluster' = [cluster EXCEPT ![t][id] = new]
        /\ informers' = [i \in 1..Len(informers) |->
                           IF i \in sees
                           THEN StoreSet(informers[i], id, new)
                           ELSE informers[i]]
        /\ pending' = [h \in HandlerNames |->
                         IF \E i \in sees : \E k \in 1..Len(informers[i].listeners) :
                              informers[i].listeners[k] = h
                         THEN Append(pending[h], note)
                         ELSE pending[h]]
        /\ events' = Append(events,
                        [type |-> t, kind |-> kind, obj |-> id, at |-> pc,
                         to |-> {h \in HandlerNames :
                                   \E i \in sees : \E k \in 1..Len(informers[i].listeners) :
                                     informers[i].listeners[k] = h}])
  /\ UNCHANGED << envVars, pc, status, setupVars, out, requests, polls, factories,
                  informerOf, startedInformers, podInformer, handlerOut, chanVars,
                  locals >>

\* A listener's goroutine hands its next notification to the handler, which
\* prints when it has a function for that kind of event.
ListenerRun(h) ==
  /\ Running
  /\ pending[h] # <<>>
  /\ LET n    == Head(pending[h])
         text == HandlerText(h, n.kind)
     IN handlerOut' = IF text = "" THEN handlerOut
                      ELSE [handlerOut EXCEPT
                              ![h] = Append(@, Line(h, text, "state", n.obj, n.ev))]
  /\ pending' = [pending EXCEPT ![h] = Tail(@)]
  /\ UNCHANGED << envVars, cluster, pc, status, setupVars, out, requests, polls,
                  factories, informers, informerOf, startedInformers, podInformer,
                  chanVars, locals, events >>

\* ------------------------------------------------------------ specification
MainStep ==
  \/ UserHomeDir
  \/ HomeDir
  \/ FlagParse
  \/ BuildConfigFromFlags
  \/ NewForConfig
  \/ ConnectivityCheck
  \/ Println
  \/ NewSharedInformerFactory
  \/ Setup
  \/ MakeStopCh
  \/ FactoryStart
  \/ GoRun
  \/ FactoryWaitForCacheSync
  \/ CacheWaitForCacheSync
  \/ Query
  \/ CloseStopCh
  \/ ReceiveStopCh
  \/ Return

\* The goroutines the library starts for an informer and its listeners.
LibraryStep ==
  \/ \E i \in 1..Len(informers) : InformerSync(i)
  \/ \E h \in HandlerNames : ListenerRun(h)

\* The cluster changing under the program.
ClusterChange ==
  \E t \in Types, kind \in {"add", "update", "delete"}, id \in Ids :
    \E v \in Vals(t) : WatchEvent(t, kind, id, v)

Next == MainStep \/ LibraryStep \/ ClusterChange

Spec == Init /\ [][Next]_vars

\* The Go scheduler runs every runnable goroutine: a step of main that is
\* enabled is eventually taken, and so is a step of the library's
\* goroutines.  Nothing obliges the cluster to change.
FairSpec == Spec /\ WF_vars(MainStep) /\ WF_vars(LibraryStep)

\* ================================================================= claims
Aborted == status \in {"fatal", "panic"}

\* The programs whose main contains a statement of the given kind.
ProgsWith(op) == {p \in Progs : \E k \in 1..Len(MainFlow(p)) : MainFlow(p)[k].op = op}
\* Main has executed a statement of the given kind (and is past it).
Past(op) == \E k \in 1..Len(MainFlow(prog)) : MainFlow(prog)[k].op = op /\ k < pc
\* Main has executed the set-up function fn.
PastFn(fn) == \E k \in 1..Len(MainFlow(prog)) : MainFlow(prog)[k].fn = fn /\ k < pc
Printed(text) == \E k \in 1..Len(out) : out[k].text = text

FlagProgs     == ProgsWith("FlagParse")
RecvProgs     == ProgsWith("ReceiveStopCh")
InformerProgs == ProgsWith("FactoryStart") \cup ProgsWith("GoRun")

\* Nothing was requested, built or printed after the failed set-up step: the
\* only request on record is the failed connectivity check itself.
NothingAfterFailure ==
  /\ factories = 0
  /\ informers = <<>>
  /\ out = <<>>
  /\ \A h \in HandlerNames : handlerOut[h] = <<>>
  /\ IF failedSetup = "connect"
     THEN Len(requests) = 1 /\ ~requests[1].ok
     ELSE requests = <<>>

SetupSteps == {"home", "config", "clientset", "connect"}

\* C1 as stated: in every program a failed set-up step (home directory,
\* config, clientset, connectivity check) ends the process at once, with no
\* later request, informer, factory or printed line.
C1_AsStated ==
  failedSetup \in SetupSteps => Aborted /\ NothingAfterFailure

\* C1, amended: in every program except the no-informer program, a failure to
\* build the config, to construct the clientset or of the connectivity check,
\* and in the programs that use createClientset also a failure to resolve the
\* home directory, ends the process at once (fatal log or panic) with no
\* later request, informer, factory or printed line.
C1_SetupFailureTerminates ==
  ( /\ prog # "noinformer"
    /\ \/ failedSetup \in {"config", "clientset", "connect"}
       \/ failedSetup = "home" /\ prog \in FlagProgs )
  => Aborted /\ NothingAfterFailure

C1_Witness ==
  /\ failedSetup = "connect"
  /\ status = "fatal"
  /\ Len(requests) = 1

\* C2 as stated: every program that comes to its end has waited on its stop
\* channel and got past the wait only because the channel was closed.
C2_AsStated ==
  status = "exited" => Past("ReceiveStopCh") /\ stopCh = "closed"

\* C2, amended: only the shared-factory, shared-informer and
\* indexer-with-lister programs wait on the stop channel; they do so after
\* their handlers are attached and their cache lookups are made, the channel
\* is still open then, and they never get past the wait (they never exit).  No
\* other program ever blocks on a stop channel.
C2_BlocksOnStopCh ==
  /\ RecvProgs = {"factory", "sharedinf", "idxlister"}
  /\ prog \in RecvProgs => status # "exited" /\ ~Past("ReceiveStopCh")
  /\ parked =>
       /\ prog \in RecvProgs
       /\ stopCh = "open"
       /\ \A k \in 1..Len(MainFlow(prog)) :
            MainFlow(prog)[k].op \in {"Setup", "Query"} => k < pc

C2_Witness ==
  /\ prog = "sharedinf"
  /\ parked
  /\ informers[podInformer].listeners = << "First", "Second" >>

\* A line showing observed cluster state has been printed.
StatePrinted ==
  \/ \E k \in 1..Len(out) : out[k].cls = "state"
  \/ \E h \in HandlerNames : handlerOut[h] # <<>>
WatchRegistered == \E i \in 1..Len(informers) : informers[i].runs > 0

\* C3 as stated: no program prints cluster state without a started informer,
\* and no program ends without one.
C3_AsStated ==
  /\ StatePrinted => WatchRegistered
  /\ status = "exited" => WatchRegistered

\* C3, amended: every program that builds an informer (shared-factory, both
\* lister programs, shared-informer, index, custom-index and
\* indexer-with-lister) has connected and started an informer for Pods or
\* Deployments before it prints any observed state, and does not end normally
\* without one.  The no-informer and list-pods programs print state from plain
\* List calls, and the options and create-deployment programs start none.
C3_WatchBeforeState ==
  /\ InformerProgs = Progs \ {"noinformer", "listpods", "options", "deploy"}
  /\ prog \in InformerProgs =>
       /\ StatePrinted => WatchRegistered /\ clientset = "ok"
       /\ status = "exited" => WatchRegistered

C3_Witness ==
  /\ prog = "listerA"
  /\ Printed("Total pods (all namespaces)")
  /\ WatchRegistered

FailedQueries == {k \in 1..Len(requests) : ~requests[k].ok /\ ~requests[k].setup}
CreateFailed ==
  \E k \in FailedQueries : requests[k].req = "Deployments(default).Create(nginx-deployment)"

\* C4 as stated: a failed query after set-up never ends the process abnormally.
C4_AsStated ==
  FailedQueries # {} => ~Aborted

\* C4, amended: a failed List call or cache lookup after set-up never ends
\* the process abnormally (the error is printed or ignored); a failed
\* Deployment Create in the create-deployment program panics.
C4_QueryFailureHandling ==
  FailedQueries # {} => (Aborted <=> CreateFailed)

C4_Witness ==
  /\ FailedQueries # {}
  /\ ~CreateFailed
  /\ status = "exited"

\* C5 as stated: a request that failed is never issued again.
C5_AsStated ==
  \A i, j \in 1..Len(requests) :
    i < j /\ ~requests[i].ok => requests[j].req # requests[i].req

\* C5, amended: no program except the no-informer program issues a request
\* again after it failed; the no-informer program's podStatus loop issues the
\* same Pods List on every iteration, also after a failure, without backoff.
C5_NoRetry ==
  prog # "noinformer" => C5_AsStated

C5_Witness ==
  /\ prog # "noinformer"
  /\ \E i, j \in 1..Len(requests) : i < j /\ ~requests[i].ok /\ ~requests[i].setup

DefaultKubeconfig == home \o << ".kube", "config" >>

\* C6 as stated: every program builds its config from the -kubeconfig flag
\* when supplied and from <home>/.kube/config otherwise.
C6_AsStated ==
  cfgPath # Unset =>
    cfgPath = IF flagArg # NoFlag THEN flagArg ELSE DefaultKubeconfig

\* C6, amended: every program that uses createClientset takes a -kubeconfig
\* flag and builds its config from the flag's path when supplied and from
\* <home>/.kube/config when not.  The no-informer, list-pods and
\* create-deployment programs define no flag: they always use
\* <home>/.kube/config (list-pods and create-deployment pass the empty path
\* when no home directory is found).
C6_KubeconfigPath ==
  /\ FlagProgs = Progs \ {"noinformer", "listpods", "deploy"}
  /\ cfgPath # Unset =>
       cfgPath = IF prog \in FlagProgs
                 THEN (IF flagArg # NoFlag THEN flagArg ELSE DefaultKubeconfig)
                 ELSE (IF home = <<>> /\ prog # "noinformer" THEN <<>>
                       ELSE DefaultKubeconfig)

C6_Witness ==
  /\ prog \in FlagProgs
  /\ flagArg = CustomPath
  /\ cfgPath = CustomPath
  /\ config = "ok"

\* Handler h has been handed event ev, and has printed for it.
Handled(h, ev) == \A k \in 1..Len(pending[h]) : pending[h][k].ev # ev
Reacted(h, ev) == \E k \in 1..Len(handlerOut[h]) : handlerOut[h][k].ev = ev
\* C7 as stated: each of the two handlers reacts to every pod change it is
\* notified of.
C7_AsStated ==
  prog = "sharedinf" =>
    \A ev \in 1..Len(events) : \A h \in events[ev].to :
      Handled(h, ev) => Reacted(h, ev)

\* C7, amended: both handlers are notified of every pod change that happens
\* once they are registered; the first handler reacts to additions, updates
\* and deletions, the second handler (which has only an AddFunc) reacts to
\* additions only.
C7_BothNotified ==
  prog = "sharedinf" =>
    \A ev \in 1..Len(events) :
      /\ events[ev].type = "Pods"
      /\ MainFlow(prog)[events[ev].at].op = "ReceiveStopCh"
           => events[ev].to = {"First", "Second"}
      /\ "First" \in events[ev].to /\ Handled("First", ev) => Reacted("First", ev)
      /\ "Second" \in events[ev].to /\ Handled("Second", ev) =>
           (Reacted("Second", ev) <=> events[ev].kind = "add")
      /\ \A h \in {"First", "Second"} : Reacted(h, ev) => h \in events[ev].to

C7_Witness ==
  /\ prog = "sharedinf"
  /\ \E ev \in 1..Len(events) :
       /\ events[ev].kind \in {"update", "delete"}
       /\ events[ev].to = {"First", "Second"}
       /\ Handled("First", ev) /\ Handled("Second", ev)
       /\ Reacted("First", ev)

InformerTypes == {informers[i].type : i \in 1..Len(informers)}

\* C8: in the shared-factory program startPodMonitor and startPodScaler get
\* the same Pod informer: once the three controllers are set up the factory
\* holds exactly two informers (Pods, Deployments), the Pod informer carries
\* both pod handlers, and factory.Start starts exactly one goroutine per
\* informer.
C8_SharedPodInformer ==
  prog = "factory" =>
    /\ Len(informers) <= 2
    /\ \A i \in 1..Len(informers) : informers[i].runs <= 1
    /\ PastFn("startPodScaler") =>
         /\ Len(informers) = 2
         /\ InformerTypes = {"Pods", "Deployments"}
         /\ informers[informerOf["Pods"]].listeners = << "Monitor", "Scaler" >>
         /\ informers[informerOf["Deployments"]].listeners = << "Manager" >>
    /\ Past("FactoryStart") =>
         \A i \in 1..Len(informers) : informers[i].runs = 1

C8_Witness ==
  /\ prog = "factory"
  /\ Past("FactoryStart")
  /\ parked
  /\ \E k \in 1..Len(handlerOut["Scaler"]) :
       handlerOut["Scaler"][k].text = "[Scaler] Pod updated"

AllSynced == \A i \in 1..Len(informers) : informers[i].synced
Queried   == \E k \in 1..Len(requests) : ~requests[k].setup

\* C9: in the two lister programs both informers are registered with the
\* factory before factory.Start, and Start, WaitForCacheSync, the lister
\* queries and close(stopCh) happen in that order: "Cache sync completed!" is
\* printed, and the listers are queried, only when every registered informer
\* has synced, and the channel is closed only after the queries.
C9_SyncBeforeQueries ==
  prog \in {"listerA", "listerB"} =>
    /\ startedInformers # {} =>
         /\ startedInformers = Types
         /\ Len(informers) = 2
         /\ \A i \in 1..Len(informers) : informers[i].runs = 1
    /\ Printed("Cache sync completed!") => Past("FactoryStart") /\ AllSynced
    /\ Queried => Printed("Cache sync completed!") /\ AllSynced /\ Len(informers) = 2
    /\ stopCh = "closed" =>
         /\ Past("FactoryWaitForCacheSync")
         /\ \A k \in 1..Len(MainFlow(prog)) : MainFlow(prog)[k].op = "Query" => k < pc

C9_Witness ==
  /\ prog = "listerB"
  /\ status = "exited"
  /\ stopCh = "closed"
  /\ Printed("Total deployments (all namespaces)")

\* C10: in the shared-informer program main's wait on stopCh eventually
\* completes, the deferred close(stopCh) runs and the program terminates.
C10_GracefulShutdown ==
  (prog = "sharedinf" /\ parked) ~> (status = "exited" /\ stopCh = "closed")

\* ------------------------------------------------------------------- C11
\* The line the shared-factory program is said to print for a change of a
\* resource of type t, "" for none, and the handler said to print it.
ExpectedText(t, kind) ==
  CASE t = "Pods" /\ kind = "add"        -> "[Monitor] Pod added"
    [] t = "Pods" /\ kind = "update"     -> "[Scaler] Pod updated"
    [] t = "Pods" /\ kind = "delete"     -> "[Scaler] Pod deleted"
    [] t = "Deployments" /\ kind = "add" -> "[Manager] Deployment added"
    [] OTHER                             -> ""

\* The lines handler h printed for watch event e (e = 0: for object i of
\* the informer's initial list).
LinesFor(h, e, i) ==
  {k \in 1..Len(handlerOut[h]) :
     handlerOut[h][k].ev = e /\ (e = 0 => handlerOut[h][k].obj = i)}

Drained == \A h \in HandlerNames : pending[h] = <<>>

\* C11: in the shared-factory program every resource event is printed by at
\* most one handler, once, with the line of its kind: a pod add by
\* "[Monitor] Pod added", a pod update by "[Scaler] Pod updated", a pod delete
\* by "[Scaler] Pod deleted", a deployment add by "[Manager] Deployment
\* added", a deployment update or delete by nothing; the same holds for the
\* adds of the initial list; and once the listeners have handled everything
\* sent to them, every event that has a line has been printed.
C11_OneHandlerPerEvent ==
  prog = "factory" =>
    /\ \A e \in 1..Len(events) :
         LET want == ExpectedText(events[e].type, events[e].kind)
             all  == {<<h, k>> \in HandlerNames \X (1..MaxObjs + MaxEvents) :
                        k \in LinesFor(h, e, 0)}
         IN /\ Cardinality(all) <= 1
            /\ \A hk \in all : /\ handlerOut[hk[1]][hk[2]].text = want
                                /\ handlerOut[hk[1]][hk[2]].obj = events[e].obj
            /\ want = "" => all = {}
            /\ (Drained /\ want # "") => Cardinality(all) = 1
    /\ \A i \in Ids :
         /\ LinesFor("Scaler", 0, i) = {}
         /\ Cardinality(LinesFor("Monitor", 0, i)) <= 1
         /\ Cardinality(LinesFor("Manager", 0, i)) <= 1
         /\ \A k \in LinesFor("Monitor", 0, i) :
              handlerOut["Monitor"][k].text = "[Monitor] Pod added"
         /\ \A k \in LinesFor("Manager", 0, i) :
              handlerOut["Manager"][k].text = "[Manager] Deployment added"
    /\ \A h \in HandlerNames \ {"Monitor", "Manager", "Scaler"} : handlerOut[h] = <<>>

\* A pod was updated while the shared-factory program was watching, and the
\* scaler's handler, alone, has printed it.
C11_Witness ==
  /\ prog = "factory"
  /\ Drained
  /\ \E e \in 1..Len(events) :
       /\ events[e].type = "Pods" /\ events[e].kind = "update"
       /\ LinesFor("Scaler", e, 0) # {}
       /\ LinesFor("Monitor", e, 0) = {}

\* ------------------------------------------------------------------- C12
ListerProgs == {"listerA", "listerB"}
GetReq      == "podLister.Pods(ns).Get(name)"
K8sAppReq   == "podLister.List(k8s-app)"

Failed(req)  == {k \in FailedQueries : requests[k].req = req}
ListFailures == {k \in FailedQueries : requests[k].req # GetReq}
OutWith(text) == {j \in 1..Len(out) : out[j].text = text}

\* Request k was the function's last, an "Error:" line was printed and no
\* line of results follows it.
StopsAt(k) ==
  /\ k = Len(requests)
  /\ \E j \in OutWith("Error:") : \A m \in (j + 1)..Len(out) : out[m].cls # "state"

\* A failed Get prints "Pod not found" and the function goes on.
GetContinues ==
  /\ Failed(GetReq) # {} <=> OutWith("Pod not found:") # {}
  /\ \A k \in Failed(GetReq) : status = "exited" => k < Len(requests)

\* C12 as stated: in useListers and demonstrateListers every failed List
\* prints "Error:" and ends the function, so that no later query is made and
\* no later count printed; only a failed Get lets the function go on.
C12_AsStated ==
  prog \in ListerProgs =>
    /\ \A k \in ListFailures : StopsAt(k)
    /\ GetContinues

\* C12, amended: in useListers and demonstrateListers a failed List prints
\* "Error:" and ends the function, so that no later query is made and no later
\* count printed, except the List by the k8s-app label in demonstrateListers:
\* when that one fails nothing is printed for it, neither an error nor a
\* count, and the function goes on with the deployments query; a failed Get
\* prints "Pod not found" and the function goes on as well.
C12_ListFailureHandling ==
  prog \in ListerProgs =>
    /\ \A k \in ListFailures \ Failed(K8sAppReq) : StopsAt(k)
    /\ Cardinality(OutWith("Error:")) = Cardinality(ListFailures \ Failed(K8sAppReq))
    /\ GetContinues
    /\ Failed(K8sAppReq) # {} => OutWith("Pods with k8s-app label") = {}
    /\ \A k \in Failed(K8sAppReq) :
         status = "exited" =>
           /\ k < Len(requests)
           /\ requests[k + 1].req = "deploymentLister.List(everything)"

\* demonstrateListers has run to its end through a failed k8s-app List and
\* then a failed deployments List.
C12_Witness ==
  /\ prog = "listerB"
  /\ status = "exited"
  /\ Failed(K8sAppReq) # {}
  /\ Failed(GetReq) # {}
  /\ ListFailures \ Failed(K8sAppReq) # {}

\* ------------------------------------------------------------------- C13
\* The programs that close their stop channel themselves: by a close(stopCh)
\* statement of main or by a deferred one.
ClosingProgs ==
  ProgsWith("CloseStopCh") \cup
  {p \in Progs : \E k \in 1..Len(MainFlow(p)) :
     MainFlow(p)[k].op = "MakeStopCh" /\ MainFlow(p)[k].arg = TRUE}

\* Main is past every query statement of the program: the query function
\* has returned, at its end or early.
QueriesOver ==
  \A k \in 1..Len(MainFlow(prog)) : MainFlow(prog)[k].op = "Query" => k < pc

\* C13: a program that closes its stop channel itself has executed
\* close(stopCh) exactly once whenever main has reached its end, also when
\* the query function returned early on an error; the close never comes
\* before the query function has returned, and no path closes twice.
C13_ClosedExactlyOnce ==
  /\ closes <= 1
  /\ closes = 1 <=> stopCh = "closed"
  /\ closes = 1 => prog \in ClosingProgs /\ QueriesOver
  /\ (prog \in ClosingProgs /\ status = "exited") => closes = 1

\* The lister program has ended after its query function returned early, on
\* the error of its first List, and the channel was closed once.
C13_Witness ==
  /\ prog = "listerA"
  /\ status = "exited"
  /\ closes = 1
  /\ OutWith("Error:") # {}
  /\ requests[Len(requests)].req = "podLister.List(everything)"

\* ------------------------------------------------------------------- C14
\* The informers that have the custom "node" index.
NodeIndexed == {i \in 1..Len(informers) : "node" \in informers[i].indexers}

Cached(i) == {id \in Ids : informers[i].store[id] # Absent}

RECURSIVE SumSizes(_, _)
SumSizes(i, ns) ==
  IF ns = {} THEN 0
  ELSE LET n == CHOOSE m \in ns : TRUE
       IN Cardinality({id \in Ids : ByIndex(i, n)[id] # Absent}) + SumSizes(i, ns \ {n})

====
